---- MODULE Spec2Model ----
(***************************************************************************)
(* srt-relay: one tokio broadcast channel fed by publisher sessions and    *)
(* drained by subscriber sessions, each session a task spawned by one of   *)
(* two listener tasks (src/src/main.rs).                                   *)
(*                                                                         *)
(* A frame is <<p, k>>: the k-th packet publisher session p read from its  *)
(* socket.  The payload is opaque to the relay, so the pair stands for it. *)
(***************************************************************************)
EXTENDS Integers, Sequences, FiniteSets, TLC

\* ---------------------------------------------------------------- bounds
\* broadcast::channel::<Bytes>(1024) in the program; a small capacity here.
ChannelCapacity == 2
\* publisher / subscriber connections accepted over the run
MaxPublishers == 2
MaxSubscribers == 2
\* packets read from all publisher sockets over a run of the relay proper
MaxFrames == 4
\* the same, over a run that also covers listener start-up and shutdown
LifecycleFrames == 3

Listeners == {"input", "output"}
Pubs == 1..MaxPublishers
Subs == 1..MaxSubscribers

NoFrame == <<0, 0>>

VARIABLES
    listener,    \* listener task: "bind", "loop", "failed" (bind error), "done"
    acceptErr,   \* history: this listener has logged a failed accept
    exited,      \* main returned after joining both listener tasks
    pub,         \* publisher session: "idle" (not spawned), "run", "ended"
    pubSent,     \* packets publisher session p has read and passed to tx.send
    sub,         \* subscriber session: "idle", "recv", "send", "closed", "err"
    subNext,     \* Receiver.next: position of the next value to receive
    subPkt,      \* packet handed to socket.send, not yet written
    subAt,       \* history: number of frames published before tx.subscribe()
    events,      \* history: results rx.recv() returned: [lag, f], lag > 0 for Lagged
    written,     \* history: frames socket.send completed, in order
    buffer,      \* Shared.buffer: slot i holds [pos, val]
    tail,        \* Tail.pos: position the next send writes
    rxCnt,       \* Tail.rx_cnt: live receivers
    txRefs,      \* strong count of the Arc holding the only Sender
    closed,      \* Tail.closed: the Sender was dropped
    pubLog,      \* history: every frame passed to tx.send, in call order
    lastSend     \* history: what the latest tx.send returned: [ok, n] for Ok(n), ok FALSE for Err

chanVars == <<buffer, tail, rxCnt, txRefs, closed>>
pubVars == <<pub, pubSent>>
subVars == <<sub, subNext, subPkt, subAt, events, written>>
vars == <<listener, acceptErr, exited, pub, pubSent, sub, subNext, subPkt, subAt,
          events, written, buffer, tail, rxCnt, txRefs, closed, pubLog, lastSend>>

\* ------------------------------------------------------- broadcast channel
RECURSIVE NextPowerOfTwo(_)
\* broadcast::channel rounds the capacity up to a power of two
NextPowerOfTwo(n) == IF n <= 1 THEN 1 ELSE 2 * NextPowerOfTwo((n + 1) \div 2)

BufLen == NextPowerOfTwo(ChannelCapacity)

\* the slots of a new channel: slot i carries position i - BufLen and no value
NewBuffer == [i \in 0..(BufLen - 1) |-> [pos |-> i - BufLen, val |-> NoFrame]]

\* Sender::send with back-pressure: refuses while a receiver has a full backlog
ChannelSendBlocking(f) ==
    /\ \A s \in Subs : sub[s] \in {"recv", "send"} => tail - subNext[s] < BufLen
    /\ IF rxCnt = 0
         THEN UNCHANGED <<buffer, tail>>
         ELSE /\ buffer' = [buffer EXCEPT ![tail % BufLen] = [pos |-> tail, val |-> f]]
              /\ tail' = tail + 1

\* Sender::send that stores the value and forgets to advance tail
ChannelSendNoTail(f) ==
    IF rxCnt = 0
      THEN UNCHANGED <<buffer, tail>>
      ELSE /\ buffer' = [buffer EXCEPT ![tail % BufLen] = [pos |-> tail, val |-> f]]
           /\ UNCHANGED tail

\* Sender::send that writes one slot past the tail
ChannelSendWrongSlot(f) ==
    IF rxCnt = 0
      THEN UNCHANGED <<buffer, tail>>
      ELSE /\ buffer' = [buffer EXCEPT ![(tail + 1) % BufLen] = [pos |-> tail, val |-> f]]
           /\ tail' = tail + 1

\* Sender::send: Err (value returned, nothing stored) with no receiver;
\* otherwise overwrite the slot at tail and advance tail.  Never waits.
ChannelSend(f) ==
    IF rxCnt = 0
      THEN UNCHANGED <<buffer, tail>>
      ELSE /\ buffer' = [buffer EXCEPT ![tail % BufLen] = [pos |-> tail, val |-> f]]
           /\ tail' = tail + 1

\* what Sender::send returns: Ok(n) counting only the receivers within the capacity
SendResultNotLagging ==
    IF rxCnt = 0
      THEN [ok |-> FALSE, n |-> 0]
      ELSE [ok |-> TRUE,
            n |-> Cardinality({s \in Subs : /\ sub[s] \in {"recv", "send"}
                                            /\ tail + 1 - subNext[s] <= BufLen})]

\* what Sender::send returns: Err(SendError) with no receiver, otherwise
\* Ok(rx_cnt), the number of live receivers
SendResult ==
    IF rxCnt = 0 THEN [ok |-> FALSE, n |-> 0] ELSE [ok |-> TRUE, n |-> rxCnt]

\* where a lagging receiver resumes: the oldest position still in the buffer
LagCursorStale(next) == next + 1

LagCursor(next) == tail - BufLen

\* the slot a receiver at position next looks at
SlotAtNewest(next) == buffer[(tail - 1) % BufLen]

SlotAt(next) == buffer[next % BufLen]

\* Receiver::recv without advancing the cursor on a value
TryRecvNoAdvance(next) ==
    LET slot == SlotAt(next) IN
    IF slot.pos = next
      THEN [kind |-> "Ok", val |-> slot.val, missed |-> 0, next |-> next]
      ELSE IF slot.pos + BufLen = next
        THEN [kind |-> IF closed THEN "Closed" ELSE "Empty",
              val |-> NoFrame, missed |-> 0, next |-> next]
        ELSE LET nx == LagCursor(next) IN
             IF nx - next = 0
               THEN [kind |-> "Ok", val |-> slot.val, missed |-> 0, next |-> next + 1]
               ELSE [kind |-> "Lagged", val |-> NoFrame, missed |-> nx - next, next |-> nx]

\* Receiver::recv reporting Closed as soon as the channel is closed
TryRecvClosedFirst(next) ==
    LET slot == SlotAt(next) IN
    IF closed
      THEN [kind |-> "Closed", val |-> NoFrame, missed |-> 0, next |-> next]
      ELSE IF slot.pos = next
        THEN [kind |-> "Ok", val |-> slot.val, missed |-> 0, next |-> next + 1]
        ELSE IF slot.pos + BufLen = next
          THEN [kind |-> "Empty", val |-> NoFrame, missed |-> 0, next |-> next]
          ELSE LET nx == LagCursor(next) IN
               IF nx - next = 0
                 THEN [kind |-> "Ok", val |-> slot.val, missed |-> 0, next |-> next + 1]
                 ELSE [kind |-> "Lagged", val |-> NoFrame, missed |-> nx - next, next |-> nx]

\* Receiver::recv reporting one skipped frame too many
TryRecvMissedOffByOne(next) ==
    LET slot == SlotAt(next) IN
    IF slot.pos = next
      THEN [kind |-> "Ok", val |-> slot.val, missed |-> 0, next |-> next + 1]
      ELSE IF slot.pos + BufLen = next
        THEN [kind |-> IF closed THEN "Closed" ELSE "Empty",
              val |-> NoFrame, missed |-> 0, next |-> next]
        ELSE LET nx == LagCursor(next) IN
             IF nx - next = 0
               THEN [kind |-> "Ok", val |-> slot.val, missed |-> 0, next |-> next + 1]
               ELSE [kind |-> "Lagged", val |-> NoFrame, missed |-> nx - next + 1,
                     next |-> nx]

\* Receiver::recv, one poll: the slot at next holds position next -> the value;
\* it holds position next - BufLen -> nothing new (Closed once the channel is
\* closed, else wait); anything else was overwritten -> Lagged(missed) and the
\* cursor jumps to the oldest retained position.
TryRecv(next) ==
    LET slot == SlotAt(next) IN
    IF slot.pos = next
      THEN [kind |-> "Ok", val |-> slot.val, missed |-> 0, next |-> next + 1]
      ELSE IF slot.pos + BufLen = next
        THEN [kind |-> IF closed THEN "Closed" ELSE "Empty",
              val |-> NoFrame, missed |-> 0, next |-> next]
        ELSE LET nx == LagCursor(next) IN
             IF nx - next = 0
               THEN [kind |-> "Ok", val |-> slot.val, missed |-> 0, next |-> next + 1]
               ELSE [kind |-> "Lagged", val |-> NoFrame, missed |-> nx - next, next |-> nx]

\* dropping one Arc<Sender>, closing the channel while one handle is left
DropTxEarly ==
    /\ txRefs' = txRefs - 1
    /\ closed' = (txRefs - 1 <= 1)

\* dropping one Arc<Sender>; the last drop drops the Sender and closes the channel
DropTx ==
    /\ txRefs' = txRefs - 1
    /\ closed' = (txRefs - 1 = 0)

\* a Receiver that stays registered after its drop
DropRxLeak == rxCnt' = rxCnt

\* dropping a Receiver
DropRx == rxCnt' = rxCnt - 1

\* ------------------------------------------------------------------- Init
\* main has built the channel (its own first receiver already dropped),
\* cloned the Arc and spawned both listener tasks.
InitWith(pc) ==
    /\ listener = [l \in Listeners |-> pc]
    /\ acceptErr = [l \in Listeners |-> FALSE]
    /\ exited = FALSE
    /\ pub = [p \in Pubs |-> "idle"]
    /\ pubSent = [p \in Pubs |-> 0]
    /\ sub = [s \in Subs |-> "idle"]
    /\ subNext = [s \in Subs |-> 0]
    /\ subPkt = [s \in Subs |-> NoFrame]
    /\ subAt = [s \in Subs |-> 0]
    /\ events = [s \in Subs |-> <<>>]
    /\ written = [s \in Subs |-> <<>>]
    /\ buffer = NewBuffer
    /\ tail = 0
    /\ rxCnt = 0
    /\ txRefs = 2
    /\ closed = FALSE
    /\ pubLog = <<>>
    /\ lastSend = [ok |-> FALSE, n |-> 0]

Init == InitWith("bind")

\* both binds have succeeded: each listener task is in its accept loop
InitRelay == InitWith("loop")

\* -------------------------------------------------------------- listeners
\* SrtListener::builder().bind(addr) succeeded
BindOk(l) ==
    /\ ~exited
    /\ listener[l] = "bind"
    /\ listener' = [listener EXCEPT ![l] = "loop"]
    /\ UNCHANGED <<acceptErr, exited, pubVars, subVars, chanVars, pubLog, lastSend>>

\* bind failed: `?` returns the error, the task logs it and ends, dropping tx
BindErr(l) ==
    /\ ~exited
    /\ listener[l] = "bind"
    /\ listener' = [listener EXCEPT ![l] = "failed"]
    /\ DropTx
    /\ UNCHANGED <<acceptErr, exited, pubVars, subVars, buffer, tail, rxCnt, pubLog, lastSend>>

\* the incoming stream yielded None: the loop ends, the task returns Ok, tx dropped
IncomingEnd(l) ==
    /\ ~exited
    /\ listener[l] = "loop"
    /\ listener' = [listener EXCEPT ![l] = "done"]
    /\ DropTx
    /\ UNCHANGED <<acceptErr, exited, pubVars, subVars, buffer, tail, rxCnt, pubLog, lastSend>>

\* a failed accept that ends the listener
AcceptErrFatal(l) ==
    /\ ~exited
    /\ listener[l] = "loop"
    /\ listener' = [listener EXCEPT ![l] = "failed"]
    /\ acceptErr' = [acceptErr EXCEPT ![l] = TRUE]
    /\ DropTx
    /\ UNCHANGED <<exited, pubVars, subVars, buffer, tail, rxCnt, pubLog, lastSend>>

\* request.accept(None) failed: logged, the loop goes on
AcceptErr(l) ==
    /\ ~exited
    /\ listener[l] = "loop"
    /\ acceptErr' = [acceptErr EXCEPT ![l] = TRUE]
    /\ UNCHANGED <<listener, exited, pubVars, subVars, chanVars, pubLog, lastSend>>

\* the input listener accepted a connection: clone the Arc, spawn the session
AcceptPublisher(p) ==
    /\ ~exited
    /\ listener["input"] = "loop"
    /\ pub[p] = "idle"
    /\ \A q \in Pubs : q < p => pub[q] # "idle"
    /\ pub' = [pub EXCEPT ![p] = "run"]
    /\ txRefs' = txRefs + 1
    /\ UNCHANGED <<listener, acceptErr, exited, pubSent, subVars, buffer, tail, rxCnt,
                   closed, pubLog, lastSend>>

\* tx.subscribe() replaying what the buffer still holds
SubscribeFromOldest == IF tail - BufLen > 0 THEN tail - BufLen ELSE 0

\* tx.subscribe(): a receiver whose cursor is the current tail
Subscribe == tail

\* the output listener accepted a connection: subscribe, spawn the session
AcceptSubscriber(s) ==
    /\ ~exited
    /\ listener["output"] = "loop"
    /\ sub[s] = "idle"
    /\ \A q \in Subs : q < s => sub[q] # "idle"
    /\ sub' = [sub EXCEPT ![s] = "recv"]
    /\ subNext' = [subNext EXCEPT ![s] = Subscribe]
    /\ subAt' = [subAt EXCEPT ![s] = Len(pubLog)]
    /\ rxCnt' = rxCnt + 1
    /\ UNCHANGED <<listener, acceptErr, exited, pubVars, subPkt, events, written,
                   buffer, tail, txRefs, closed, pubLog, lastSend>>

\* main returning as soon as one listener task has ended
MainReturnOnFirst ==
    /\ ~exited
    /\ \E l \in Listeners : listener[l] \in {"failed", "done"}
    /\ exited' = TRUE
    /\ UNCHANGED <<listener, acceptErr, pubVars, subVars, chanVars, pubLog, lastSend>>

\* tokio::join! of both listener tasks completed: main returns Ok(()), the
\* runtime shuts down and every remaining session stops where it is
MainReturn ==
    /\ ~exited
    /\ \A l \in Listeners : listener[l] \in {"failed", "done"}
    /\ exited' = TRUE
    /\ UNCHANGED <<listener, acceptErr, pubVars, subVars, chanVars, pubLog, lastSend>>

\* ------------------------------------------------------ publisher session
\* a publisher session that gives up when tx.send returns Err
PublisherFrameStopsOnErr(p) ==
    /\ ~exited
    /\ pub[p] = "run"
    /\ Len(pubLog) < MaxFrames
    /\ LET f == <<p, pubSent[p] + 1>> IN
         /\ ChannelSend(f)
         /\ pubLog' = Append(pubLog, f)
    /\ pubSent' = [pubSent EXCEPT ![p] = @ + 1]
    /\ lastSend' = SendResult
    /\ IF SendResult.ok
         THEN UNCHANGED <<pub, txRefs, closed>>
         ELSE pub' = [pub EXCEPT ![p] = "ended"] /\ DropTx
    /\ UNCHANGED <<listener, acceptErr, exited, subVars, rxCnt>>

\* socket.next() yielded Ok((_, packet)); tx.send(packet), result only logged
PublisherFrame(p) ==
    /\ ~exited
    /\ pub[p] = "run"
    /\ Len(pubLog) < MaxFrames
    /\ LET f == <<p, pubSent[p] + 1>> IN
         /\ ChannelSend(f)
         /\ pubLog' = Append(pubLog, f)
    /\ pubSent' = [pubSent EXCEPT ![p] = @ + 1]
    /\ lastSend' = SendResult
    /\ UNCHANGED <<listener, acceptErr, exited, pub, subVars, rxCnt, txRefs, closed>>

\* a publisher session ending that closes the channel whatever handles remain
PublisherEndCloses(p) ==
    /\ ~exited
    /\ pub[p] = "run"
    /\ pub' = [pub EXCEPT ![p] = "ended"]
    /\ txRefs' = txRefs - 1
    /\ closed' = TRUE
    /\ UNCHANGED <<listener, acceptErr, exited, pubSent, subVars, buffer, tail, rxCnt,
                   pubLog, lastSend>>

\* socket.next() yielded None (peer closed) or Some(Err(e)) (read error): the
\* session returns either way and its Arc<Sender> is dropped
PublisherEnd(p) ==
    /\ ~exited
    /\ pub[p] = "run"
    /\ pub' = [pub EXCEPT ![p] = "ended"]
    /\ DropTx
    /\ UNCHANGED <<listener, acceptErr, exited, pubSent, subVars, buffer, tail, rxCnt,
                   pubLog, lastSend>>

\* ----------------------------------------------------- subscriber session
\* a subscriber session that treats Lagged like any other error and returns
SubscriberRecvLagFatal(s) ==
    /\ ~exited
    /\ sub[s] = "recv"
    /\ LET r == TryRecv(subNext[s]) IN
         /\ r.kind # "Empty"
         /\ subNext' = [subNext EXCEPT ![s] = r.next]
         /\ CASE r.kind = "Ok" ->
                   /\ sub' = [sub EXCEPT ![s] = "send"]
                   /\ subPkt' = [subPkt EXCEPT ![s] = r.val]
                   /\ events' = [events EXCEPT ![s] = Append(@, [lag |-> 0, f |-> r.val])]
                   /\ UNCHANGED rxCnt
              [] r.kind = "Lagged" ->
                   /\ events' = [events EXCEPT ![s] =
                                          Append(@, [lag |-> r.missed, f |-> NoFrame])]
                   /\ sub' = [sub EXCEPT ![s] = "err"]
                   /\ DropRx
                   /\ UNCHANGED subPkt
              [] r.kind = "Closed" ->
                   /\ sub' = [sub EXCEPT ![s] = "closed"]
                   /\ DropRx
                   /\ UNCHANGED <<subPkt, events>>
    /\ UNCHANGED <<listener, acceptErr, exited, pubVars, subAt, written, buffer, tail,
                   txRefs, closed, pubLog, lastSend>>

\* a session that stays parked when its recv would return Lagged
SubscriberRecvStuckOnLag(s) ==
    /\ ~exited
    /\ sub[s] = "recv"
    /\ LET r == TryRecv(subNext[s]) IN
         /\ r.kind \notin {"Empty", "Lagged"}
         /\ subNext' = [subNext EXCEPT ![s] = r.next]
         /\ CASE r.kind = "Ok" ->
                   /\ sub' = [sub EXCEPT ![s] = "send"]
                   /\ subPkt' = [subPkt EXCEPT ![s] = r.val]
                   /\ events' = [events EXCEPT ![s] = Append(@, [lag |-> 0, f |-> r.val])]
                   /\ UNCHANGED rxCnt
              [] r.kind = "Closed" ->
                   /\ sub' = [sub EXCEPT ![s] = "closed"]
                   /\ DropRx
                   /\ UNCHANGED <<subPkt, events>>
    /\ UNCHANGED <<listener, acceptErr, exited, pubVars, subAt, written, buffer, tail,
                   txRefs, closed, pubLog, lastSend>>

\* rx.recv() completed (it stays pending while the result is Empty)
SubscriberRecv(s) ==
    /\ ~exited
    /\ sub[s] = "recv"
    /\ LET r == TryRecv(subNext[s]) IN
         /\ r.kind # "Empty"
         /\ subNext' = [subNext EXCEPT ![s] = r.next]
         /\ CASE r.kind = "Ok" ->
                   /\ sub' = [sub EXCEPT ![s] = "send"]
                   /\ subPkt' = [subPkt EXCEPT ![s] = r.val]
                   /\ events' = [events EXCEPT ![s] = Append(@, [lag |-> 0, f |-> r.val])]
                   /\ UNCHANGED rxCnt
              [] r.kind = "Lagged" ->
                   /\ events' = [events EXCEPT ![s] =
                                          Append(@, [lag |-> r.missed, f |-> NoFrame])]
                   /\ UNCHANGED <<sub, subPkt, rxCnt>>
              [] r.kind = "Closed" ->
                   /\ sub' = [sub EXCEPT ![s] = "closed"]
                   /\ DropRx
                   /\ UNCHANGED <<subPkt, events>>
    /\ UNCHANGED <<listener, acceptErr, exited, pubVars, subAt, written, buffer, tail,
                   txRefs, closed, pubLog, lastSend>>

\* socket.send((now, packet)) completed
SubscriberSendOk(s) ==
    /\ ~exited
    /\ sub[s] = "send"
    /\ written' = [written EXCEPT ![s] = Append(@, subPkt[s])]
    /\ subPkt' = [subPkt EXCEPT ![s] = NoFrame]
    /\ sub' = [sub EXCEPT ![s] = "recv"]
    /\ UNCHANGED <<listener, acceptErr, exited, pubVars, subNext, subAt, events,
                   chanVars, pubLog, lastSend>>

\* a write failure that tears the whole channel down
SubscriberSendErrCloses(s) ==
    /\ ~exited
    /\ sub[s] = "send"
    /\ subPkt' = [subPkt EXCEPT ![s] = NoFrame]
    /\ sub' = [sub EXCEPT ![s] = "err"]
    /\ DropRx
    /\ closed' = TRUE
    /\ UNCHANGED <<listener, acceptErr, exited, pubVars, subNext, subAt, events,
                   written, buffer, tail, txRefs, pubLog, lastSend>>

\* socket.send failed: the session returns the error, rx is dropped
SubscriberSendErr(s) ==
    /\ ~exited
    /\ sub[s] = "send"
    /\ subPkt' = [subPkt EXCEPT ![s] = NoFrame]
    /\ sub' = [sub EXCEPT ![s] = "err"]
    /\ DropRx
    /\ UNCHANGED <<listener, acceptErr, exited, pubVars, subNext, subAt, events,
                   written, buffer, tail, txRefs, closed, pubLog, lastSend>>

\* ------------------------------------------------------------------- Next
\* the whole program: listener start-up, accept loops, sessions, shutdown
Next ==
    \/ \E l \in Listeners : BindOk(l)
    \/ \E l \in Listeners : BindErr(l)
    \/ \E l \in Listeners : IncomingEnd(l)
    \/ \E l \in Listeners : AcceptErr(l)
    \/ \E p \in Pubs : AcceptPublisher(p)
    \/ \E s \in Subs : AcceptSubscriber(s)
    \/ MainReturn
    \/ \E p \in Pubs : Len(pubLog) < LifecycleFrames /\ PublisherFrame(p)
    \/ \E p \in Pubs : PublisherEnd(p)
    \/ \E s \in Subs : SubscriberRecv(s)
    \/ \E s \in Subs : SubscriberSendOk(s)
    \/ \E s \in Subs : SubscriberSendErr(s)

Spec == Init /\ [][Next]_vars

\* the relay proper: both listeners bound and accepting for the whole run
NextRelay ==
    \/ \E p \in Pubs : AcceptPublisher(p)
    \/ \E s \in Subs : AcceptSubscriber(s)
    \/ \E p \in Pubs : PublisherFrame(p)
    \/ \E p \in Pubs : PublisherEnd(p)
    \/ \E s \in Subs : SubscriberRecv(s)
    \/ \E s \in Subs : SubscriberSendOk(s)
    \/ \E s \in Subs : SubscriberSendErr(s)

SpecRelay == InitRelay /\ [][NextRelay]_vars

\* ------------------------------------------------------ derived notions
Live(s) == sub[s] \in {"recv", "send"}

\* position of frame f in the publish order (frames are distinct)
PubIdx(f) == CHOOSE i \in 1..Len(pubLog) : pubLog[i] = f

InPubLog(f) == \E i \in 1..Len(pubLog) : pubLog[i] = f

RECURSIVE FramesOf(_)
\* the frames among the results rx.recv() returned, in order
FramesOf(ev) ==
    IF ev = <<>> THEN <<>>
    ELSE IF ev[1].lag = 0 THEN <<ev[1].f>> \o FramesOf(Tail(ev))
    ELSE FramesOf(Tail(ev))

RECURSIVE LagSum(_)
\* the skipped counts of the Lagged results in ev, added up
LagSum(ev) == IF ev = <<>> THEN 0 ELSE ev[1].lag + LagSum(Tail(ev))

NeverLagged(s) == \A i \in 1..Len(events[s]) : events[s][i].lag = 0

\* the written frames follow the publish order strictly
InPublishOrder(seq) ==
    /\ \A i \in 1..Len(seq) : InPubLog(seq[i])
    /\ \A i, j \in 1..Len(seq) : i < j => PubIdx(seq[i]) < PubIdx(seq[j])

\* --------------------------------------------------------------- claims

\* C1: the frames a subscriber session writes to its transport are a
\* subsequence of the publish order: every written frame was published, no
\* frame is written twice, and no two are written out of publish order.
C1_WrittenIsSubsequence == \A s \in Subs : InPublishOrder(written[s])

\* C1 witness: a subscriber that lagged past a frame has gone on to write two
\* later frames.
C1_Witness ==
    \E s \in Subs :
        /\ Len(written[s]) >= 2
        /\ ~NeverLagged(s)
        /\ Len(written[s]) < Len(pubLog)

\* C2: a subscription that joined before the first publish and never
\* overflowed has received exactly the frames published up to its cursor, in
\* publish order, the rest being still retained for it in order; so once
\* nothing is pending it has observed all N frames, none missing.
C2_AllFramesInOrder ==
    \A s \in Subs :
        (Live(s) /\ subAt[s] = 0 /\ NeverLagged(s) /\ tail - subNext[s] <= BufLen) =>
            /\ tail = Len(pubLog)
            /\ FramesOf(events[s]) = SubSeq(pubLog, 1, subNext[s])
            /\ \A i \in subNext[s]..(tail - 1) : TryRecv(i).val = pubLog[i + 1]
            /\ written[s] = SubSeq(pubLog, 1, Len(written[s]))
            /\ Len(written[s]) = subNext[s] - (IF sub[s] = "send" THEN 1 ELSE 0)

\* C2 witness: two subscribers joined before the first publish and both have
\* written all MaxFrames frames.
C2_Witness ==
    /\ Len(pubLog) = MaxFrames
    /\ \A s \in Subs : Live(s) /\ subAt[s] = 0 /\ written[s] = pubLog

\* C3 as stated: no frame published before subscribe() is received, and the
\* first frame a subscription receives is the first one published after it.
C3_FirstFrameIsNextPublished ==
    \A s \in Subs :
        LET fr == FramesOf(events[s]) IN
        /\ \A i \in 1..Len(fr) : InPubLog(fr[i]) /\ PubIdx(fr[i]) > subAt[s]
        /\ fr # <<>> => fr[1] = pubLog[subAt[s] + 1]

\* C3 amended: a subscription never receives a frame published before its
\* subscribe() call, and, unless a Lagged result came first, the first frame
\* it receives is the first one published after the call.
C3_NoHistoryReplay ==
    \A s \in Subs :
        /\ \A i \in 1..Len(events[s]) :
               events[s][i].lag = 0 =>
                   InPubLog(events[s][i].f) /\ PubIdx(events[s][i].f) > subAt[s]
        /\ (events[s] # <<>> /\ events[s][1].lag = 0) =>
               events[s][1].f = pubLog[subAt[s] + 1]

\* C3 witness: a subscriber that joined when earlier frames were still held in
\* the ring buffer has received its first frame.
C3_Witness ==
    \E s \in Subs :
        /\ subAt[s] >= 1
        /\ events[s] # <<>>
        /\ events[s][1].lag = 0
        /\ \E i \in 0..(BufLen - 1) : buffer[i].pos >= 0 /\ buffer[i].pos < subAt[s]

\* C4: a subscriber suspended in a transport write, whatever its backlog,
\* blocks nobody: every running publisher session can publish, every
\* subscriber at rx.recv() with an unread frame can pull, every subscriber in
\* a write can complete it, and a subscriber within the capacity finds every
\* frame it has not read yet still in the buffer.
C4_SlowConsumerIsolated ==
    /\ \A p \in Pubs :
           (pub[p] = "run" /\ Len(pubLog) < MaxFrames) => ENABLED PublisherFrame(p)
    /\ \A s \in Subs :
           /\ (sub[s] = "recv" /\ subNext[s] < tail) => ENABLED SubscriberRecv(s)
           /\ sub[s] = "send" => ENABLED SubscriberSendOk(s)
           /\ (Live(s) /\ tail - subNext[s] <= BufLen) =>
                  \A i \in subNext[s]..(tail - 1) : TryRecv(i).kind = "Ok"

\* C4 witness: one subscriber sits in a write with more than the capacity
\* unread while another has written every frame published so far.
C4_Witness ==
    \E s, t \in Subs :
        /\ s # t
        /\ sub[s] = "send"
        /\ tail - subNext[s] > BufLen
        /\ Live(t)
        /\ Len(written[t]) >= BufLen + 1
        /\ written[t] = pubLog
        /\ \E p \in Pubs : pub[p] = "run"

\* the oldest position the ring buffer still holds
OldestPos == CHOOSE q \in {buffer[i].pos : i \in 0..(BufLen - 1)} :
                 \A i \in 0..(BufLen - 1) : q <= buffer[i].pos

\* rx.recv() of subscriber s returned a result in this step
RecvStep(s) == Len(events'[s]) = Len(events[s]) + 1

LastEvent(ev) == ev[Len(ev)]

\* the frames of ev[1..i], counted, plus the skipped counts reported in ev[1..i]
Accounted(ev, i) == Len(FramesOf(SubSeq(ev, 1, i))) + LagSum(SubSeq(ev, 1, i))

\* no duplicate and no silent gap: the i-th result, when a frame, is the
\* frame whose distance from subscribe() is the frames received plus the
\* frames reported skipped so far
NoSilentGap ==
    \A s \in Subs : \A i \in 1..Len(events[s]) :
        events[s][i].lag = 0 =>
            /\ InPubLog(events[s][i].f)
            /\ PubIdx(events[s][i].f) = subAt[s] + Accounted(events[s], i)

\* a pull made with K unread frames: Lagged(K - BufLen) and the cursor on the
\* oldest retained frame when K > BufLen, the next unread frame otherwise
LagResultExact ==
    \A s \in Subs :
        RecvStep(s) =>
            LET K == tail - subNext[s]
                r == LastEvent(events'[s])
            IN  IF K > BufLen
                  THEN /\ r.lag = K - BufLen
                       /\ subNext'[s] = OldestPos
                       /\ TryRecv(subNext'[s]).kind = "Ok"
                       /\ TryRecv(subNext'[s]).val = pubLog[Len(pubLog) - BufLen + 1]
                  ELSE /\ r.lag = 0
                       /\ r.f = pubLog[Len(pubLog) - K + 1]
                       /\ subNext'[s] = subNext[s] + 1

\* C5 as stated: a pull with K > C unread frames returns Lagged, exactly one
\* Lagged comes before the stream resumes (the result after a Lagged is a
\* frame, the oldest retained one), and there is no duplicate and no gap
\* without a Lagged result.
C5_OneLaggedBeforeResuming ==
    /\ []NoSilentGap
    /\ [][\A s \in Subs :
             RecvStep(s) =>
                 LET r == LastEvent(events'[s]) IN
                 /\ tail - subNext[s] > BufLen => r.lag > 0
                 /\ (events[s] # <<>> /\ LastEvent(events[s]).lag > 0) =>
                        /\ r.lag = 0
                        /\ r.f = pubLog[Len(pubLog) - BufLen + 1]]_vars

\* C5 amended: a pull made with K > C unread frames returns Lagged(K - C) and
\* leaves the cursor on the oldest retained frame, which is what a pull
\* returns next if no frame is published in between (one more publish
\* overwrites that frame and the next pull returns Lagged again); a pull with
\* K <= C returns the next unread frame; no frame is delivered twice and
\* every skipped frame is counted by a Lagged result.
C5_LagCorrectness == []NoSilentGap /\ [][LagResultExact]_vars

\* C5 witness: a subscriber got one Lagged result and then the frame that was
\* the oldest retained one.
C5_Witness ==
    \E s \in Subs :
        /\ Len(events[s]) >= 2
        /\ events[s][1].lag > 0
        /\ events[s][2].lag = 0
        /\ events[s][2].f = pubLog[subAt[s] + events[s][1].lag + 1]

\* C6: in what a subscriber writes, the frames of one publisher session keep
\* the order in which that session read them from its transport.
C6_PerPublisherOrder ==
    \A s \in Subs : \A i, j \in 1..Len(written[s]) :
        (i < j /\ written[s][i][1] = written[s][j][1]) =>
            written[s][i][2] < written[s][j][2]

\* C6 witness: a subscriber has written frames of two publisher sessions,
\* one of them between two frames of the other.
C6_Witness ==
    \E s \in Subs : \E i, j, k \in 1..Len(written[s]) :
        /\ i < j /\ j < k
        /\ written[s][i][1] = written[s][k][1]
        /\ written[s][j][1] # written[s][i][1]

\* ---- the claims below are about start-up, accept failures and shutdown

\* a publisher session ended in this step
PublisherEndStep(p) == pub[p] = "run" /\ pub'[p] = "ended"

\* what a publisher session's end leaves alone
PublisherEndFrame(p) ==
    /\ UNCHANGED <<listener, exited, buffer, tail, rxCnt, subVars, pubSent, pubLog>>
    /\ \A q \in Pubs : q # p => pub'[q] = pub[q]

\* some holder of the Sender other than publisher session p is still running
OtherSenderHolder(p) ==
    \/ \E l \in Listeners : listener[l] \in {"bind", "loop"}
    \/ \E q \in Pubs : q # p /\ pub[q] = "run"

\* C7 as stated: a publisher session ending leaves the channel open with its
\* retained frames and every other session and both listeners as they were.
C7_PublisherEndChangesNothing ==
    [][\A p \in Pubs :
          PublisherEndStep(p) => (PublisherEndFrame(p) /\ ~closed')]_vars

\* C7 amended: a publisher session ending leaves the retained frames, every
\* other session and both listeners as they were, and leaves the channel open
\* as long as a listener task or another publisher session still runs; the
\* end of the last of them closes the channel.  A running publisher session
\* always finds the channel open.
C7_PublisherEndIsolated ==
    /\ [](\A p \in Pubs : pub[p] = "run" => ~closed)
    /\ [][\A p \in Pubs :
             PublisherEndStep(p) =>
                 /\ PublisherEndFrame(p)
                 /\ closed' = ~OtherSenderHolder(p)]_vars

\* C7 witness: the first publisher session has ended, a second one connected,
\* and a subscriber has written a frame of each, the channel still open.
C7_Witness ==
    /\ pub[1] = "ended"
    /\ pub[2] = "run"
    /\ ~closed
    /\ \E s \in Subs :
           /\ Live(s)
           /\ \E i, j \in 1..Len(written[s]) :
                  i < j /\ written[s][i][1] = 1 /\ written[s][j][1] = 2

\* C8: a listener whose bind failed never coexists with the other listener
\* accepting connections or with a running session.
C8_NoPartialStartup ==
    \A l \in Listeners :
        listener[l] = "failed" =>
            /\ \A m \in Listeners : listener[m] # "loop"
            /\ \A p \in Pubs : pub[p] # "run"
            /\ \A s \in Subs : ~Live(s)

\* the lowest unused session id, 0 when all are used
FreePub == IF \E p \in Pubs : pub[p] = "idle"
             THEN CHOOSE p \in Pubs : pub[p] = "idle" /\ \A q \in Pubs : q < p => pub[q] # "idle"
             ELSE 0

FreeSub == IF \E s \in Subs : sub[s] = "idle"
             THEN CHOOSE s \in Subs : sub[s] = "idle" /\ \A q \in Subs : q < s => sub[q] # "idle"
             ELSE 0

\* the listener can accept the next connection request that succeeds
CanAccept(l) ==
    IF l = "input"
      THEN FreePub # 0 => ENABLED AcceptPublisher(FreePub)
      ELSE FreeSub # 0 => ENABLED AcceptSubscriber(FreeSub)

\* C9: a failed accept leaves its listener in the accept loop, spawns no
\* session and changes no channel state; a listener that has seen failed
\* accepts has not ended because of them and still accepts the next request.
C9_AcceptFailureKeepsListener ==
    /\ [](\A l \in Listeners :
             acceptErr[l] =>
                 /\ listener[l] \in {"loop", "done"}
                 /\ listener[l] = "loop" => CanAccept(l))
    /\ [][\A l \in Listeners :
             (acceptErr'[l] /\ ~acceptErr[l]) =>
                 /\ listener'[l] = "loop"
                 /\ UNCHANGED <<pubVars, subVars, chanVars, pubLog, exited>>]_vars

\* C9 witness: both listeners have had a failed accept, both are in their
\* loop, and each has since spawned, or can spawn, sessions.
C9_Witness ==
    /\ \A l \in Listeners : acceptErr[l] /\ listener[l] = "loop"
    /\ pub[1] = "run"
    /\ Live(1)
    /\ ENABLED AcceptPublisher(2)
    /\ ENABLED AcceptSubscriber(2)

\* subscriber s completed an rx.recv() in this step
PullStep(s) == sub[s] = "recv" /\ (RecvStep(s) \/ sub'[s] # "recv")

\* C10 as stated: once the channel is closed every outstanding and future
\* rx.recv() resolves with Closed, and the session ends without an error.
C10_ClosedResolvesEveryPull ==
    /\ [](\A s \in Subs : (closed /\ sub[s] = "recv" /\ ~exited) =>
                              ENABLED SubscriberRecv(s))
    /\ [][closed => closed']_vars
    /\ [][\A s \in Subs :
             (closed /\ PullStep(s)) =>
                 /\ sub'[s] = "closed"
                 /\ UNCHANGED <<events, written>>]_vars

\* C10 amended: the channel stays closed once closed; from then on every
\* rx.recv() resolves at once, with the frames (or the Lagged result) the
\* subscription has not read yet and with Closed as soon as none is left;
\* only a subscriber that got Closed ends in the clean state, no error.
C10_ClosedAfterDrain ==
    /\ [](\A s \in Subs :
             /\ (closed /\ sub[s] = "recv" /\ ~exited) => ENABLED SubscriberRecv(s)
             /\ sub[s] = "closed" => (closed /\ subNext[s] = tail))
    /\ [][closed => closed']_vars
    /\ [][\A s \in Subs :
             (closed /\ PullStep(s)) =>
                 IF subNext[s] = tail
                   THEN sub'[s] = "closed" /\ UNCHANGED <<events, written>>
                   ELSE RecvStep(s) /\ sub'[s] \in {"recv", "send"}]_vars

\* C10 witness: the channel is closed, one subscriber has written a frame and
\* ended on Closed, another still has an unread frame to pull.
C10_Witness ==
    /\ closed
    /\ \E s, t \in Subs :
           /\ sub[s] = "closed"
           /\ written[s] # <<>>
           /\ sub[t] = "recv"
           /\ subNext[t] < tail

\* ---- publisher sessions, listeners and subscriber session ends

\* publisher session p passed a packet to tx.send in this step
PublishStep(p) == pubSent'[p] = pubSent[p] + 1

\* C11: whatever tx.send returns, Err with no receiver included, the step
\* that publishes leaves the publisher session running with its sender
\* handle, and the session can read the next packet; the step in which a
\* publisher session ends publishes nothing (it is a read outcome).
C11_PublishNeverEndsSession ==
    /\ [](\A p \in Pubs :
             (pub[p] = "run" /\ Len(pubLog) < MaxFrames) => ENABLED PublisherFrame(p))
    /\ [][\A p \in Pubs :
             /\ PublishStep(p) => (pub[p] = "run" /\ pub'[p] = "run" /\ txRefs' = txRefs)
             /\ (pub[p] = "run" /\ pub'[p] = "ended") =>
                    UNCHANGED <<pubLog, pubSent, lastSend, buffer, tail>>]_vars

\* C11 witness: a publisher session has had tx.send return Err twice (nothing
\* was ever stored) and is still running.
C11_Witness ==
    \E p \in Pubs :
        /\ pub[p] = "run"
        /\ pubSent[p] >= 2
        /\ tail = 0
        /\ ~lastSend.ok

Ended(l) == listener[l] \in {"failed", "done"}

\* C12: the step in which one listener task ends leaves the other listener
\* where it was; a listener in its loop can accept whatever the state of the
\* other; main returns only once both listener tasks have ended.
C12_ListenersIndependent ==
    /\ [](exited => \A l \in Listeners : Ended(l))
    /\ [](\A l \in Listeners : listener[l] = "loop" => (~exited /\ CanAccept(l)))
    /\ [](\A l \in Listeners : (listener[l] = "bind" /\ ~exited) =>
                                   (ENABLED BindOk(l) /\ ENABLED BindErr(l)))
    /\ [][\A l, m \in Listeners :
             (l # m /\ ~Ended(l) /\ Ended(l)') => listener'[m] = listener[m]]_vars

\* C12 witness: one listener task has ended, the other is in its accept loop
\* with a session it accepted, and main has not returned.
C12_Witness ==
    /\ ~exited
    /\ \/ /\ Ended("input") /\ listener["output"] = "loop" /\ \E s \in Subs : Live(s)
       \/ /\ Ended("output") /\ listener["input"] = "loop" /\ \E p \in Pubs : pub[p] = "run"

\* the positions (publish-order indices) the i-th result, a Lagged, skipped
SkippedBy(s, i) ==
    (subAt[s] + Accounted(events[s], i - 1) + 1)..(subAt[s] + Accounted(events[s], i))

\* C13: a Lagged result leaves the session at rx.recv() with its receiver,
\* writes nothing, and the frames it skipped are never received or written
\* by that subscriber afterwards.
C13_LaggedKeepsSession ==
    /\ [](\A s \in Subs : \A i \in 1..Len(events[s]) :
             events[s][i].lag > 0 =>
                 \A k \in SkippedBy(s, i) :
                     /\ k <= Len(pubLog)
                     /\ \A j \in 1..Len(events[s]) : events[s][j].f # pubLog[k]
                     /\ \A j \in 1..Len(written[s]) : written[s][j] # pubLog[k])
    /\ [][\A s \in Subs :
             (RecvStep(s) /\ LastEvent(events'[s]).lag > 0) =>
                 /\ sub'[s] = "recv"
                 /\ TryRecv(subNext'[s]).kind = "Ok"
                 /\ UNCHANGED <<written, subPkt, rxCnt>>]_vars

\* C13 witness: a subscriber got Lagged, stayed, and has since written a frame.
C13_Witness ==
    \E s \in Subs :
        /\ Live(s)
        /\ events[s] # <<>>
        /\ events[s][1].lag > 0
        /\ written[s] # <<>>

SessionOver(s) == sub[s] \in {"err", "closed"}

\* C14: a write failure ends the session without the frame being written
\* then or later; every session end, on a write failure or on Closed, takes
\* the receiver out of the channel's count, and an ended session's cursor
\* and received and written frames never change again.
C14_SessionEndRemovesSubscription ==
    /\ [](rxCnt = Cardinality({s \in Subs : Live(s)}))
    /\ [][\A s \in Subs :
             /\ (sub[s] = "send" /\ sub'[s] # "send" /\ written'[s] = written[s]) =>
                    (sub'[s] = "err" /\ rxCnt' = rxCnt - 1)
             /\ (~SessionOver(s) /\ SessionOver(s)') => rxCnt' = rxCnt - 1
             /\ SessionOver(s) =>
                    /\ sub'[s] = sub[s]
                    /\ subNext'[s] = subNext[s]
                    /\ events'[s] = events[s]
                    /\ written'[s] = written[s]]_vars

\* C14 witness: a session ended on a write failure with a frame unwritten,
\* frames published since lie unread past its cursor, and the only receiver
\* counted is the other, live, subscriber.
C14_Witness ==
    \E s, t \in Subs :
        /\ sub[s] = "err"
        /\ Len(FramesOf(events[s])) = Len(written[s]) + 1
        /\ subNext[s] < tail
        /\ Live(t)
        /\ rxCnt = 1

\* subscriber session s failed in this step
SubscriberFailStep(s) == sub[s] # "err" /\ sub'[s] = "err"

\* C15: the step in which a subscriber session fails changes nothing of any
\* other subscriber session, of any publisher session, of the listeners, or
\* of the channel's retained frames, sequence counter and open/closed state.
C15_FailureStaysInSession ==
    [][\A s \in Subs :
          SubscriberFailStep(s) =>
              /\ UNCHANGED <<listener, acceptErr, exited, pub, pubSent, pubLog, lastSend>>
              /\ UNCHANGED <<buffer, tail, txRefs, closed>>
              /\ \A t \in Subs :
                     t # s => /\ sub'[t] = sub[t]
                              /\ subNext'[t] = subNext[t]
                              /\ subPkt'[t] = subPkt[t]
                              /\ events'[t] = events[t]
                              /\ written'[t] = written[t]]_vars

\* C15 witness: one subscriber session has failed; the other is live and has
\* written every frame published, and a publisher session is running.
C15_Witness ==
    \E s, t \in Subs :
        /\ sub[s] = "err"
        /\ Live(t)
        /\ pubLog # <<>>
        /\ written[t] = pubLog
        /\ \E p \in Pubs : pub[p] = "run"

\* ---- the buffer, tx.send's result, closure and loss accounting

\* the positions whose frames the ring buffer holds
RetainedPos == {buffer[i].pos : i \in 0..(BufLen - 1)} \cap Nat

\* the frames the ring buffer holds
RetainedFrames == {buffer[i].val : i \in {j \in 0..(BufLen - 1) : buffer[j].pos >= 0}}

Max(a, b) == IF a >= b THEN a ELSE b

\* the last n frames passed to tx.send
LastPublished(n) == {pubLog[i] : i \in Max(1, Len(pubLog) - n + 1)..Len(pubLog)}

\* some publisher session passed a packet to tx.send in this step
AnyPublishStep == Len(pubLog') = Len(pubLog) + 1

\* the buffer changed in at most the slot that held the oldest position,
\* which now holds frame f at the old tail
OnlyOldestSlotReplaced(f) ==
    \A i \in 0..(BufLen - 1) :
        IF buffer[i].pos = OldestPos
          THEN buffer'[i] = [pos |-> tail, val |-> f]
          ELSE buffer'[i] = buffer[i]

\* C16 as stated: at most N frames are retained, they are the N most
\* recently published, a publish replaces exactly the oldest one, and a
\* subscription whose cursor pointed at an evicted frame has its cursor moved
\* to the new oldest retained frame by that publish.
C16_EagerDropOldest ==
    /\ [](/\ Cardinality(RetainedPos) <= BufLen
          /\ RetainedFrames = LastPublished(Cardinality(RetainedPos))
          /\ \A s \in Subs : Live(s) => subNext[s] >= tail - BufLen)
    /\ [][AnyPublishStep => OnlyOldestSlotReplaced(LastEvent(pubLog'))]_vars

\* C16 amended: at most N frames are retained, at consecutive positions
\* ending at the tail and in publish order; a publish made while a
\* subscription exists replaces exactly the oldest retained frame, one made
\* with none is not retained at all; no publish moves a cursor: a
\* subscription whose cursor points at a replaced frame learns of it at its
\* next pull, which returns Lagged and moves the cursor to the frame that is
\* then the oldest retained.
C16_LazyDropOldest ==
    /\ [](/\ Cardinality(RetainedPos) <= BufLen
          /\ RetainedPos = Max(0, tail - BufLen)..(tail - 1)
          /\ \A i, j \in 0..(BufLen - 1) :
                 (0 <= buffer[i].pos /\ buffer[i].pos < buffer[j].pos) =>
                     /\ InPubLog(buffer[i].val) /\ InPubLog(buffer[j].val)
                     /\ PubIdx(buffer[i].val) < PubIdx(buffer[j].val))
    /\ [][/\ AnyPublishStep =>
                 /\ subNext' = subNext
                 /\ IF rxCnt > 0
                      THEN /\ OnlyOldestSlotReplaced(LastEvent(pubLog'))
                           /\ tail' = tail + 1
                      ELSE UNCHANGED <<buffer, tail>>
          /\ \A s \in Subs :
                 (RecvStep(s) /\ subNext[s] < tail - BufLen) =>
                     /\ LastEvent(events'[s]).lag > 0
                     /\ subNext'[s] = OldestPos]_vars

\* C16 witness: the buffer has wrapped, a frame published with no
\* subscription was not retained, and a live subscription's cursor still
\* points at a replaced frame.
C16_Witness ==
    /\ tail > BufLen
    /\ Len(pubLog) > tail
    /\ \E s \in Subs : Live(s) /\ subNext[s] < tail - BufLen

\* the live subscriptions that the frame just published did not overflow
NotLagging == {s \in Subs : Live(s) /\ tail - subNext[s] <= BufLen}

\* C17 as stated: tx.send returns the number of subscriptions that received
\* the frame without lag at the time of the publish.
C17_SendCountsNonLagging ==
    [][AnyPublishStep => lastSend'.n = Cardinality(NotLagging')]_vars

\* C17 amended: tx.send returns the number of subscriptions alive at the
\* time of the publish, lagging or not, and an error when there is none.
C17_SendCountsReceivers ==
    [][AnyPublishStep =>
          LET live == {s \in Subs : Live(s)} IN
          /\ lastSend'.ok = (live # {})
          /\ lastSend'.n = Cardinality(live)]_vars

\* C17 witness: the latest tx.send returned 2 although one of the two
\* subscriptions had more than the capacity unread.
C17_Witness ==
    /\ lastSend.ok
    /\ lastSend.n = Cardinality(Subs)
    /\ \A s \in Subs : Live(s)
    /\ \E s \in Subs : tail - subNext[s] > BufLen

\* the listener tasks and the publisher sessions holding a clone of the
\* Arc<Sender>
HoldingListeners == {l \in Listeners : ~Ended(l)}
HoldingPublishers == {p \in Pubs : pub[p] = "run"}
NoSenderHolder == HoldingListeners = {} /\ HoldingPublishers = {}

\* C18: the channel is closed exactly when no listener task and no
\* publisher session is left, and a subscriber session that ended on Closed
\* did so with the channel closed.
C18_ClosedOnlyWithoutSenders ==
    /\ closed = NoSenderHolder
    /\ txRefs = Cardinality(HoldingListeners) + Cardinality(HoldingPublishers)
    /\ \A s \in Subs : sub[s] = "closed" => (closed /\ NoSenderHolder)

\* C18 witness: a subscriber session ended on Closed after a publisher
\* session had run and ended.
C18_Witness ==
    \E s \in Subs : \E p \in Pubs :
        /\ sub[s] = "closed"
        /\ pub[p] = "ended"
        /\ written[s] # <<>>

\* C19: for a live subscription, the frames published since its subscribe()
\* are the frames it pulled, plus the skipped counts reported to it, plus the
\* frames still pending between its cursor and the tail.
C19_LossAccounting ==
    \A s \in Subs :
        Live(s) =>
            Len(pubLog) - subAt[s]
                = Len(FramesOf(events[s])) + LagSum(events[s]) + (tail - subNext[s])

\* C19 witness: a live subscription that joined after a publish has a Lagged
\* result, a pulled frame and a frame pending.
C19_Witness ==
    \E s \in Subs :
        /\ Live(s)
        /\ subAt[s] >= 1
        /\ LagSum(events[s]) >= 1
        /\ FramesOf(events[s]) # <<>>
        /\ tail - subNext[s] >= 1

\* ---- eventual delivery

\* the runtime keeps polling a session task whose recv can complete or whose
\* write is in progress
SubscriberFairness ==
    \A s \in Subs : WF_vars(SubscriberRecv(s)) /\ WF_vars(SubscriberSendOk(s))

\* the relay steps, with the publish bound of the lifecycle specification
NextLive ==
    \/ \E p \in Pubs : AcceptPublisher(p)
    \/ \E s \in Subs : AcceptSubscriber(s)
    \/ \E p \in Pubs : Len(pubLog) < LifecycleFrames /\ PublisherFrame(p)
    \/ \E p \in Pubs : PublisherEnd(p)
    \/ \E s \in Subs : SubscriberRecv(s)
    \/ \E s \in Subs : SubscriberSendOk(s)
    \/ \E s \in Subs : SubscriberSendErr(s)

SpecLive == InitRelay /\ [][NextLive]_vars /\ SubscriberFairness

\* the frames published since s subscribed that were written to its
\* transport or counted by a Lagged result returned to it
Settled(s) == Len(written[s]) + LagSum(events[s])

\* C20: every frame published while subscription s exists is eventually
\* written to its transport or counted in a Lagged result returned to it,
\* unless one of its transport writes fails.
C20_EventualDelivery ==
    \A s \in Subs : \A k \in 1..LifecycleFrames :
        (Live(s) /\ subAt[s] < k /\ k <= Len(pubLog))
            ~> (sub[s] = "err" \/ Settled(s) >= k - subAt[s])

\* C20 witness: a live subscription has every frame published since it
\* subscribed written or counted, some written and some counted.
C20_Witness ==
    \E s \in Subs :
        /\ sub[s] = "recv"
        /\ Len(pubLog) = LifecycleFrames
        /\ written[s] # <<>>
        /\ LagSum(events[s]) >= 1
        /\ Settled(s) = Len(pubLog) - subAt[s]

====
